---- MODULE Spec2Model ----
(***************************************************************************)
(* The three browser verification scripts of jules-scratch:                *)
(*   "lazy"     verification/verify_lazy_loading.py                        *)
(*   "products" verification/verify_mobile_products.py                     *)
(*   "home"     phase2_verification/verify_mobile_home.py                  *)
(* One run of main() of one script.  Every awaited call of the browser     *)
(* library either returns or raises; which of the two is the environment's *)
(* choice.  Times are milliseconds.                                        *)
(***************************************************************************)
EXTENDS Integers, Sequences, FiniteSets, TLC

VARIABLES
    script,      \* which of the three scripts is run
    pc,          \* position of main(): launch, new_context, new_page, try,
                 \* except_print, except_shot, finally, exit, done
    ip,          \* index of the next statement of the try body
    log,         \* indices of the try-body statements attempted, in order
    failedAt,    \* index of the try-body statement that raised, 0 if none
    caught,      \* the except clause has been entered
    exc,         \* an exception is propagating out of main()
    out,         \* lines printed to standard output
    tried,       \* screenshot calls made, per path: [ok |-> n, err |-> n]
    written,     \* screenshot files written, per path
    waited,      \* the to_be_visible waits made: stmt, heading, appeared, at, ok
    launched,    \* chromium.launch has returned a browser
    enteredTry,  \* control has entered the try block
    closeCalls,  \* number of browser.close() calls made
    result       \* how main() ended: "none", "returned", "raised"

vars == <<script, pc, ip, log, failedAt, caught, exc, out, tried, written,
          waited, launched, enteredTry, closeCalls, result>>

Scripts == {"lazy", "products", "home"}

(* timeout=60000 of page.goto *)
GotoTimeout == 60000

(* timeout=30000 of to_be_visible in the two mobile scripts *)
VisibleTimeout == 30000

(* to_be_visible() of verify_lazy_loading passes no timeout: the library's *)
(* default expect timeout, 5 seconds, applies.                             *)
DefaultExpectTimeout == 5000

(* Environment: how long after the call a page settles / a heading shows.  *)
LoadTimes == {1000, 59000, 61000}
AppearTimes == {0, 4000, 6000, 29000, 31000}

Goto(u) == [kind |-> "goto", what |-> u, timeout |-> GotoTimeout]
Expect(h, t) == [kind |-> "expect", what |-> h, timeout |-> t]
Click(l) == [kind |-> "click", what |-> l, timeout |-> 0]
ShotToErrorPath(p) == [kind |-> "screenshot", what |-> "err", timeout |-> 0]
Shot(p) == [kind |-> "screenshot", what |-> p, timeout |-> 0]
Say(l) == [kind |-> "print", what |-> l, timeout |-> 0]

LazyBodyPrintBeforeExpect ==
    << Goto("http://localhost:5173/"),
       Say("HomeLoaded"),
       Expect("Capture Every Moment", DefaultExpectTimeout),
       Click("Products"),
       Expect("Products", DefaultExpectTimeout),
       Say("ProductsLoaded"),
       Click("Sign in"),
       Expect("Sign In", DefaultExpectTimeout),
       Say("LoginLoaded"),
       Goto("http://localhost:5173/admin/login"),
       Expect("Admin Login", DefaultExpectTimeout),
       Say("AdminLoaded"),
       Shot("ok"),
       Say("ScreenshotTaken") >>

(* The statements of the try block of each script, in source order. *)
LazyBody ==
    << Goto("http://localhost:5173/"),
       Expect("Capture Every Moment", DefaultExpectTimeout),
       Say("HomeLoaded"),
       Click("Products"),
       Expect("Products", DefaultExpectTimeout),
       Say("ProductsLoaded"),
       Click("Sign in"),
       Expect("Sign In", DefaultExpectTimeout),
       Say("LoginLoaded"),
       Goto("http://localhost:5173/admin/login"),
       Expect("Admin Login", DefaultExpectTimeout),
       Say("AdminLoaded"),
       Shot("ok"),
       Say("ScreenshotTaken") >>

ProductsBody ==
    << Goto("http://localhost:5174/products"),
       Expect("Products", VisibleTimeout),
       Say("ProductsLoaded"),
       Shot("ok"),
       Say("ScreenshotSaved") >>

HomeBodyDefaultTimeout ==
    << Goto("http://localhost:5173/"),
       Expect("Capture Every Moment", DefaultExpectTimeout),
       Say("HomeLoaded"),
       Shot("ok"),
       Say("ScreenshotSaved") >>

HomeBody ==
    << Goto("http://localhost:5173/"),
       Expect("Capture Every Moment", VisibleTimeout),
       Say("HomeLoaded"),
       Shot("ok"),
       Say("ScreenshotSaved") >>

Program(s) ==
    CASE s = "lazy" -> LazyBody
      [] s = "products" -> ProductsBody
      [] s = "home" -> HomeBody

(* verify_lazy_loading calls browser.new_page(); the mobile scripts call *)
(* browser.new_context(...) and then context.new_page().                 *)
UsesContext(s) == s \in {"products", "home"}

Body == Program(script)
Stmt == Body[ip]
At(k) == pc = "try" /\ ip <= Len(Body) /\ Stmt.kind = k

(* A wait succeeds when the element shows before the timeout elapses. *)
InTime(d, timeout) == d < timeout

Init ==
    /\ script \in Scripts
    /\ pc = "launch"
    /\ ip = 1
    /\ log = << >>
    /\ failedAt = 0
    /\ caught = FALSE
    /\ exc = FALSE
    /\ out = << >>
    /\ tried = [ok |-> 0, err |-> 0]
    /\ written = [ok |-> 0, err |-> 0]
    /\ waited = << >>
    /\ launched = FALSE
    /\ enteredTry = FALSE
    /\ closeCalls = 0
    /\ result = "none"

(* An exception raised before the try block leaves main() through the *)
(* async with block only.                                             *)
SetupRaise ==
    /\ pc' = "exit"
    /\ exc' = TRUE

(* A statement of the try body returns: control moves to the next one, *)
(* and from the last one to the finally block.                         *)
Returned ==
    /\ log' = Append(log, ip)
    /\ ip' = ip + 1
    /\ pc' = IF ip = Len(Body) THEN "finally" ELSE "try"
    /\ UNCHANGED <<failedAt, caught>>

RaisedAndContinued ==
    /\ log' = Append(log, ip)
    /\ failedAt' = ip
    /\ caught' = TRUE
    /\ ip' = ip + 1
    /\ pc' = IF ip = Len(Body) THEN "finally" ELSE "try"

(* A statement of the try body raises: `except Exception as e` takes it. *)
Raised ==
    /\ log' = Append(log, ip)
    /\ failedAt' = ip
    /\ caught' = TRUE
    /\ pc' = "except_print"
    /\ UNCHANGED ip

HandlerPrintedRetries ==
    pc' = "try"

HandlerPrintedSkipsScreenshot ==
    pc' = "finally"

(* The except handler's print returns: its screenshot is next. *)
HandlerPrinted ==
    pc' = "except_shot"

HandlerRaiseSkipsFinally ==
    /\ pc' = "exit"
    /\ exc' = TRUE

(* The except handler's own screenshot raises: the exception leaves the *)
(* handler, the finally block still runs, then it propagates.           *)
HandlerRaise ==
    /\ pc' = "finally"
    /\ exc' = TRUE

Launch ==
    /\ pc = "launch"
    /\ \/ /\ launched' = TRUE
          /\ pc' = IF UsesContext(script) THEN "new_context" ELSE "new_page"
          /\ UNCHANGED exc
       \/ /\ SetupRaise
          /\ UNCHANGED launched
    /\ UNCHANGED <<script, ip, log, failedAt, caught, out, tried, written,
                   waited, enteredTry, closeCalls, result>>

NewContext ==
    /\ pc = "new_context"
    /\ \/ /\ pc' = "new_page"
          /\ UNCHANGED exc
       \/ SetupRaise
    /\ UNCHANGED <<script, ip, log, failedAt, caught, out, tried, written,
                   waited, launched, enteredTry, closeCalls, result>>

NewPage ==
    /\ pc = "new_page"
    /\ \/ /\ pc' = "try"
          /\ enteredTry' = TRUE
          /\ UNCHANGED exc
       \/ /\ SetupRaise
          /\ UNCHANGED enteredTry
    /\ UNCHANGED <<script, ip, log, failedAt, caught, out, tried, written,
                   waited, launched, closeCalls, result>>

GotoPage ==
    /\ At("goto")
    /\ \/ \E d \in LoadTimes :
             IF InTime(d, Stmt.timeout) THEN Returned ELSE Raised
       \/ Raised      \* nothing answers at the URL
    /\ UNCHANGED <<script, exc, out, tried, written, waited, launched,
                   enteredTry, closeCalls, result>>

ExpectVisible ==
    /\ At("expect")
    /\ \/ \E d \in AppearTimes :
             /\ waited' = Append(waited,
                    [stmt |-> ip, heading |-> Stmt.what, appeared |-> TRUE,
                     at |-> d, ok |-> InTime(d, Stmt.timeout)])
             /\ IF InTime(d, Stmt.timeout) THEN Returned ELSE Raised
       \/ /\ waited' = Append(waited,
                    [stmt |-> ip, heading |-> Stmt.what, appeared |-> FALSE,
                     at |-> 0, ok |-> FALSE])
          /\ Raised
    /\ UNCHANGED <<script, exc, out, tried, written, launched, enteredTry,
                   closeCalls, result>>

ClickLink ==
    /\ At("click")
    /\ \/ Returned
       \/ Raised
    /\ UNCHANGED <<script, exc, out, tried, written, waited, launched,
                   enteredTry, closeCalls, result>>

Screenshot ==
    /\ At("screenshot")
    /\ tried' = [tried EXCEPT ![Stmt.what] = @ + 1]
    /\ \/ /\ written' = [written EXCEPT ![Stmt.what] = @ + 1]
          /\ Returned
       \/ /\ UNCHANGED written
          /\ Raised
    /\ UNCHANGED <<script, exc, out, waited, launched, enteredTry,
                   closeCalls, result>>

PrintLine ==
    /\ At("print")
    /\ out' = Append(out, Stmt.what)
    /\ Returned
    /\ UNCHANGED <<script, exc, tried, written, waited, launched,
                   enteredTry, closeCalls, result>>

ExceptPrint ==
    /\ pc = "except_print"
    /\ out' = Append(out, "Error")
    /\ HandlerPrinted
    /\ UNCHANGED <<script, ip, log, failedAt, caught, exc, tried, written,
                   waited, launched, enteredTry, closeCalls, result>>

ExceptScreenshot ==
    /\ pc = "except_shot"
    /\ tried' = [tried EXCEPT !.err = @ + 1]
    /\ \/ /\ written' = [written EXCEPT !.err = @ + 1]
          /\ pc' = "finally"
          /\ UNCHANGED exc
       \/ /\ UNCHANGED written
          /\ HandlerRaise
    /\ UNCHANGED <<script, ip, log, failedAt, caught, out, waited, launched,
                   enteredTry, closeCalls, result>>

(* finally: await browser.close(), on the normal path, after the handler *)
(* and while the handler's exception propagates.                         *)
FinallyClose ==
    /\ pc = "finally"
    /\ closeCalls' = closeCalls + 1
    /\ pc' = "exit"
    /\ UNCHANGED <<script, ip, log, failedAt, caught, exc, out, tried,
                   written, waited, launched, enteredTry, result>>

(* Leaving `async with async_playwright()`: main() returns, or the *)
(* propagating exception leaves it and asyncio.run re-raises it.   *)
Exit ==
    /\ pc = "exit"
    /\ pc' = "done"
    /\ result' = IF exc THEN "raised" ELSE "returned"
    /\ UNCHANGED <<script, ip, log, failedAt, caught, exc, out, tried,
                   written, waited, launched, enteredTry, closeCalls>>

Next ==
    \/ Launch
    \/ NewContext
    \/ NewPage
    \/ GotoPage
    \/ ExpectVisible
    \/ ClickLink
    \/ Screenshot
    \/ PrintLine
    \/ ExceptPrint
    \/ ExceptScreenshot
    \/ FinallyClose
    \/ Exit

Spec == Init /\ [][Next]_vars

(* Every awaited call completes or fails when its timeout elapses, so a *)
(* run that can take a step eventually takes one.                       *)
FairSpec == Spec /\ WF_vars(Next)

TypeOK ==
    /\ script \in Scripts
    /\ pc \in {"launch", "new_context", "new_page", "try", "except_print",
               "except_shot", "finally", "exit", "done"}
    /\ ip \in 1..(Len(Body) + 1)
    /\ failedAt \in 0..Len(Body)
    /\ caught \in BOOLEAN /\ exc \in BOOLEAN
    /\ closeCalls \in Nat
    /\ result \in {"none", "returned", "raised"}

(***************************************************************************)
(* Properties                                                              *)
(***************************************************************************)

IsPrefix(s, t) == Len(s) <= Len(t) /\ \A i \in 1..Len(s) : s[i] = t[i]
ErrorLines == Cardinality({k \in DOMAIN out : out[k] = "Error"})
Finished == pc = "done"

(* C1: the statements of the try block are attempted in declared order,   *)
(* each at most once, and after statement i has failed no later statement *)
(* is attempted.                                                          *)
C1_DeclaredOrderNoRetry ==
    /\ \A k \in 1..Len(log) : log[k] = k
    /\ failedAt # 0 => Len(log) = failedAt

C1_Witness ==
    /\ Finished /\ script = "lazy"
    /\ failedAt = 5 /\ log = <<1, 2, 3, 4, 5>>

(* C2: a run that reached the try block has called browser.close()        *)
(* exactly once when main ends, and never more than once, also when the   *)
(* handler's own screenshot raised.                                       *)
C2_ClosedExactlyOnce ==
    /\ closeCalls <= 1
    /\ (pc \in {"exit", "done"} /\ enteredTry) => closeCalls = 1

C2_Witness ==
    /\ Finished /\ caught
    /\ tried.err = 1 /\ written.err = 0
    /\ closeCalls = 1

(* C3: after any failure of a step, the exception is caught, the browser  *)
(* is closed and main returns normally (no exception leaves main).        *)
C3_NoFailureIsFatal ==
    (Finished /\ failedAt # 0) =>
        (caught /\ closeCalls = 1 /\ result = "returned")

(* C4 as claimed: when no navigation, wait or click fails, the run takes  *)
(* no exception path and writes exactly one success screenshot and no     *)
(* error screenshot.                                                      *)
AllElementsFound == failedAt = 0 \/ Body[failedAt].kind = "screenshot"

C4_AsClaimed ==
    (Finished /\ enteredTry /\ AllElementsFound) =>
        (~caught /\ written.ok = 1 /\ written.err = 0)

(* C4 amended: when no statement of the try block fails, the success      *)
(* screenshot included, the handler is not entered, exactly one           *)
(* screenshot is written at the success path, none at the error path.     *)
C4_SuccessPath ==
    (Finished /\ enteredTry /\ failedAt = 0) =>
        /\ ~caught /\ ErrorLines = 0
        /\ tried.ok = 1 /\ written.ok = 1
        /\ tried.err = 0 /\ written.err = 0

C4_Witness ==
    /\ Finished /\ script = "lazy" /\ failedAt = 0
    /\ written.ok = 1 /\ Len(log) = Len(LazyBody)

(* C5: when the first goto fails, the run prints one failure line, writes *)
(* exactly one error screenshot and no success screenshot, and main       *)
(* returns normally.                                                      *)
C5_UnreachableApplication ==
    (Finished /\ failedAt = 1) =>
        /\ ErrorLines = 1
        /\ written.err = 1 /\ written.ok = 0
        /\ result = "returned"

(* C6 as claimed: in every script that checks the home page, a wait for   *)
(* the heading "Capture Every Moment" succeeds whenever the heading shows *)
(* within 30 seconds.                                                     *)
HomeHeading == "Capture Every Moment"

C6_AsClaimed ==
    \A k \in DOMAIN waited :
        (waited[k].heading = HomeHeading /\ script \in {"lazy", "home"}
            /\ waited[k].appeared /\ waited[k].at < VisibleTimeout)
        => (waited[k].ok /\ failedAt # waited[k].stmt)

(* C6 amended: the wait for "Capture Every Moment" succeeds whenever the  *)
(* heading shows within 30 seconds in verify_mobile_home, and whenever it *)
(* shows within the default 5 seconds in verify_lazy_loading.             *)
C6_WithinTheScriptsTimeout ==
    \A k \in DOMAIN waited :
        (waited[k].heading = HomeHeading /\ waited[k].appeared) =>
            /\ (script = "home" /\ waited[k].at < VisibleTimeout)
                   => (waited[k].ok /\ failedAt # waited[k].stmt)
            /\ (script = "lazy" /\ waited[k].at < DefaultExpectTimeout)
                   => (waited[k].ok /\ failedAt # waited[k].stmt)

C6_Witness ==
    /\ Finished /\ script = "home" /\ failedAt = 0
    /\ \E k \in DOMAIN waited :
           waited[k].heading = HomeHeading /\ waited[k].at = 29000
               /\ waited[k].ok

(* C7: the lifecycle of a run moves only along                            *)
(* NotStarted -> Running -> (Completed | Failed) -> TornDown, and a run   *)
(* that is Running eventually is TornDown.                                *)
Lifecycle ==
    CASE pc \in {"launch", "new_context", "new_page"} -> "NotStarted"
      [] pc = "try" -> "Running"
      [] pc \in {"except_print", "except_shot"} -> "Failed"
      [] pc = "finally" -> IF caught THEN "Failed" ELSE "Completed"
      [] pc \in {"exit", "done"} ->
             IF closeCalls > 0 THEN "TornDown" ELSE "NotStarted"

LifecycleEdges ==
    { <<"NotStarted", "Running">>,
      <<"Running", "Completed">>, <<"Running", "Failed">>,
      <<"Completed", "TornDown">>, <<"Failed", "TornDown">> }

C7_Lifecycle ==
    /\ [][Lifecycle' = Lifecycle \/ <<Lifecycle, Lifecycle'>> \in LifecycleEdges]_vars
    /\ (Lifecycle = "Running") ~> (Lifecycle = "TornDown")

C7_Witness ==
    /\ Finished /\ Lifecycle = "TornDown"
    /\ caught /\ exc

(* C8: once the browser has been closed, at least one screenshot has been *)
(* attempted: the success screenshot if no statement failed, the error    *)
(* screenshot if one did; the error screenshot is attempted only after a  *)
(* failure.                                                               *)
C8_ScreenshotAttempted ==
    /\ closeCalls > 0 => tried.ok + tried.err >= 1
    /\ (closeCalls > 0 /\ failedAt = 0) => tried.ok = 1
    /\ (closeCalls > 0 /\ failedAt # 0) => tried.err = 1
    /\ tried.err > 0 => failedAt # 0

C8_Witness ==
    /\ Finished /\ closeCalls = 1
    /\ failedAt # 0 /\ Body[failedAt].kind = "screenshot"
    /\ tried.ok = 1 /\ tried.err = 1

(* C9: once chromium.launch has returned a browser, main does not end     *)
(* without having called browser.close().                                 *)
C9_ReleasedOnceAcquired ==
    (Finished /\ launched) => closeCalls >= 1

(* C10: in verify_lazy_loading the printed lines are a prefix of the five *)
(* success lines, optionally followed by one error line, which never      *)
(* follows the last success line; a checkpoint's line is printed only     *)
(* after its heading was asserted visible.                                *)
LazyLines ==
    <<"HomeLoaded", "ProductsLoaded", "LoginLoaded", "AdminLoaded",
      "ScreenshotTaken">>

HeadingOf(line) ==
    CASE line = "HomeLoaded" -> "Capture Every Moment"
      [] line = "ProductsLoaded" -> "Products"
      [] line = "LoginLoaded" -> "Sign In"
      [] line = "AdminLoaded" -> "Admin Login"

C10_PrintedLines ==
    script = "lazy" =>
        /\ \/ IsPrefix(out, LazyLines)
           \/ /\ out # << >>
              /\ out[Len(out)] = "Error"
              /\ Len(out) - 1 < Len(LazyLines)
              /\ IsPrefix(SubSeq(out, 1, Len(out) - 1), LazyLines)
        /\ \A k \in DOMAIN out :
               out[k] \in {"HomeLoaded", "ProductsLoaded", "LoginLoaded",
                           "AdminLoaded"}
               => \E j \in DOMAIN waited :
                      waited[j].heading = HeadingOf(out[k]) /\ waited[j].ok

C10_Witness ==
    /\ Finished /\ script = "lazy"
    /\ out = <<"HomeLoaded", "ProductsLoaded", "Error">>
====
